---- MODULE Spec2Model ----
(***************************************************************************)
(* Model of SRX/check_jsrx_session.py: one run of main(), from the parsed  *)
(* command line to process exit.  get_session() opens the device, sends    *)
(* one get-flow-session-information RPC, closes the device and flattens    *)
(* every flow-session node of the reply into a dictionary; main() prints   *)
(* the Nagios line for the first dictionary or pretty-prints the list.     *)
(*                                                                         *)
(* Python values: strings are TLA+ strings, None is the string None below, *)
(* a dict is a function from key strings to value strings, a list is a     *)
(* sequence.  An XML element is a function from the tags of the children   *)
(* it has to their text; find() of a tag outside the domain is None and    *)
(* reading .text of it raises AttributeError.                              *)
(***************************************************************************)
EXTENDS Integers, Sequences, FiniteSets, TLC

VARIABLES
    args,          \* main: the argparse namespace
    srx,           \* the device: the session tree it answers the RPC with
    pc,            \* position of the run
    dev,           \* get_session: the Device object
    locals,        \* get_session: source_ip, destination_ip, destination_port, protocol
    flow_args,     \* get_session: keyword arguments of the RPC
    rpc_calls,     \* the keyword arguments of every RPC the device received
    flow_request,  \* get_session: session nodes found under the reply root
    i,             \* number of session nodes the outer loop has finished
    j,             \* number of flow sub-nodes of the current node merged
    session_dict,  \* get_session: the record under construction
    session_list,  \* get_session: records kept so far
    session,       \* main: the list get_session returned
    stdout,        \* what the process printed
    raised,        \* the exception that ended the run, or None
    exit_status    \* process exit status

vars == <<args, srx, pc, dev, locals, flow_args, rpc_calls, flow_request, i, j,
          session_dict, session_list, session, stdout, raised, exit_status>>

\* Bounds of the enumerated inputs.
MaxSessions == 2
MaxFlows == 2
MaxWings == 3

None == "<None>"
EmptyDict == [k \in {} |-> ""]

(***************************************************************************)
(* The reply tree.                                                         *)
(***************************************************************************)
BaseElements ==
    {"session-state", "session-identifier", "policy", "configured-timeout",
     "timeout", "start-time", "duration"}

FlowElements ==
    {"direction", "source-address", "destination-address", "source-port",
     "destination-port", "protocol", "byte-cnt"}

States == {"Active", "Backup"}

\* Text of base element e of the k-th session node: identifiers and timers
\* differ from node to node, as they do in a device's session table.
BaseText(k, state, e) ==
    CASE e = "session-state" -> state
      [] e = "session-identifier" -> "3143" \o ToString(k)
      [] e = "policy" -> "trust-to-untrust/4"
      [] e = "configured-timeout" -> "43200"
      [] e = "timeout" -> "4309" \o ToString(k)
      [] e = "start-time" -> "86" \o ToString(k)
      [] e = "duration" -> "10" \o ToString(k)

\* Text of element e of the n-th flow sub-node of the k-th session node.
FlowText(k, n, dir, e) ==
    CASE e = "direction" -> dir
      [] e = "source-address" -> "10.0." \o ToString(k) \o "." \o ToString(n)
      [] e = "destination-address" -> "172.16." \o ToString(k) \o "." \o ToString(n)
      [] e = "source-port" -> "5" \o ToString(k) \o "00" \o ToString(n)
      [] e = "destination-port" -> "8" \o ToString(n)
      [] e = "protocol" -> IF n = 1 THEN "tcp" ELSE "udp"
      [] e = "byte-cnt" -> "17" \o ToString(k) \o "5" \o ToString(n)

Without(el, e) == [t \in (DOMAIN el) \ {e} |-> el[t]]

\* A shape is what varies between nodes: the state text, the direction labels
\* of the flow sub-nodes in document order, and the one element the device
\* left out ("none" when the node is complete; a base element is left out of
\* the session node, a flow element out of its last flow sub-node).
MkSession(k, shape) ==
    LET base == [e \in BaseElements |-> BaseText(k, shape.state, e)]
        flows == [n \in 1..Len(shape.dirs) |->
                    LET fl == [e \in FlowElements |-> FlowText(k, n, shape.dirs[n], e)]
                    IN IF n = Len(shape.dirs) THEN Without(fl, shape.defect) ELSE fl]
    IN [base |-> Without(base, shape.defect), flows |-> flows]

SeqsUpTo(S, n) == UNION {[1..m -> S] : m \in 0..n}

Shape(state, dirs, defect) == [state |-> state, dirs |-> dirs, defect |-> defect]

\* Complete Active nodes with every sequence of In/Out wings up to MaxFlows,
\* a complete Backup node, and two nodes with an element left out.
ShapesWell ==
    {Shape("Active", d, "none") : d \in SeqsUpTo({"In", "Out"}, MaxFlows)}
    \cup {Shape("Backup", <<"In", "Out">>, "none"),
          Shape("Active", <<"In", "Out">>, "policy"),
          Shape("Backup", <<"In", "Out">>, "byte-cnt")}

\* Complete nodes with every sequence of up to MaxWings wings, a third
\* direction label included.
ShapesWings ==
    {Shape(s, d, "none") : s \in States, d \in SeqsUpTo({"In", "Out", "Fwd"}, MaxWings)}

\* Two-wing nodes with one element left out, every element in turn.
ShapesBad ==
    {Shape(s, <<"In", "Out">>, e) : s \in States, e \in BaseElements \cup FlowElements}
    \cup {Shape(s, <<"In", "Out">>, "none") : s \in States}

\* A few representative nodes.
ShapesSample ==
    {Shape("Active", <<"In", "Out">>, "none"), Shape("Backup", <<"In", "Out">>, "none"),
     Shape("Active", <<"Fwd", "Out">>, "none"), Shape("Active", <<"In", "Out">>, "policy"),
     Shape("Backup", <<"In", "Out">>, "byte-cnt")}

Replies(shapes) ==
    {[k \in DOMAIN sh |-> MkSession(k, sh[k])] : sh \in SeqsUpTo(shapes, MaxSessions)}

\* Replies of a single session node.
SingleReplies(shapes) == {<<MkSession(1, sh)>> : sh \in shapes}

(***************************************************************************)
(* Command lines.                                                          *)
(***************************************************************************)
Namespace(src, dst, port, proto, nagios, user, pass) ==
    [device |-> "myfirewall.corp.com", src_address |-> src, dst_address |-> dst,
     dst_port |-> port, protocol |-> proto, nagios |-> nagios,
     username |-> user, password |-> pass]

\* The invocations of the header comment (lines 13 and 16).
ArgsBasic ==
    {Namespace("10.1.1.1", "10.2.2.2", "80", "tcp", n, None, None) : n \in BOOLEAN}

\* Every combination of supplied and omitted options.
ArgsAll ==
    {Namespace(src, dst, port, proto, n, user, pass) :
        src \in {None, "10.1.1.1"}, dst \in {None, "10.2.2.2"}, port \in {None, "80"},
        proto \in {None, "tcp"}, n \in BOOLEAN, user \in {None, "nagios"},
        pass \in {None, "secret"}}

InitWith(argset, replies) ==
    /\ args \in argset
    /\ srx \in replies
    /\ pc = "main"
    /\ dev = [user |-> None, password |-> None, state |-> "none"]
    /\ locals = [source_ip |-> None, destination_ip |-> None,
                 destination_port |-> None, protocol |-> None]
    /\ flow_args = EmptyDict
    /\ rpc_calls = <<>>
    /\ flow_request = <<>>
    /\ i = 0
    /\ j = 0
    /\ session_dict = EmptyDict
    /\ session_list = <<>>
    /\ session = <<>>
    /\ stdout = <<>>
    /\ raised = None
    /\ exit_status = 0

Init == InitWith(ArgsBasic, Replies(ShapesWell))
InitArgs == InitWith(ArgsAll, Replies(ShapesSample))
InitMalformed == InitWith(ArgsBasic, Replies(ShapesBad))
InitWings == InitWith(ArgsBasic, SingleReplies(ShapesWings))

(***************************************************************************)
(* Helpers.                                                                *)
(***************************************************************************)
\* An uncaught exception, or sys.exit(1): the interpreter exits with status 1.
Abort(exc) ==
    /\ pc' = "done"
    /\ raised' = exc
    /\ exit_status' = 1

\* Python's `a and b`.
PyAnd(a, b) == IF a \in {None, ""} THEN a ELSE b

\* node.find(tag): the child's text, None when there is no such child.
Find(el, tag) == IF tag \in DOMAIN el THEN el[tag] ELSE None

\* dict.get(key)
Get(d, key) == IF key \in DOMAIN d THEN d[key] ELSE None

\* Variant of Update: keys already present keep their value.
UpdateKeepFirst(d, new) == d @@ new

\* dict.update(new): keys of new replace those of d.
Update(d, new) == new @@ d

\* What the print statement and pprint put on stdout.
Line(text) == [fmt |-> "print", val |-> text]
Listing(list) == [fmt |-> "pprint", val |-> list]

\* The Element find() returns, as the loop's local variable holds it.
Element(el, tag) == IF tag \in DOMAIN el THEN "<Element " \o tag \o ">" ELSE None

(***************************************************************************)
(* get_session                                                             *)
(***************************************************************************)
\* Line 132 and lines 42-46: the call binds the parameters, Device() is built
\* with the credentials when `(username and password) != None`.
NewDevice ==
    /\ pc = "main"
    /\ locals' = [source_ip |-> args.src_address, destination_ip |-> args.dst_address,
                  destination_port |-> args.dst_port, protocol |-> args.protocol]
    /\ dev' = IF PyAnd(args.username, args.password) # None
              THEN [user |-> args.username, password |-> args.password, state |-> "new"]
              ELSE [user |-> None, password |-> None, state |-> "new"]
    /\ pc' = "open"
    /\ UNCHANGED <<args, srx, flow_args, rpc_calls, flow_request, i, j, session_dict,
                   session_list, session, stdout, raised, exit_status>>

\* Lines 48-49: dev.open() succeeds.
OpenOk ==
    /\ pc = "open"
    /\ dev' = [dev EXCEPT !.state = "open"]
    /\ pc' = "flow_args"
    /\ UNCHANGED <<args, srx, locals, flow_args, rpc_calls, flow_request, i, j,
                   session_dict, session_list, session, stdout, raised, exit_status>>

\* Variant of OpenFails: the handler prints but does not exit.
OpenFailsNoExit ==
    /\ pc = "open"
    /\ stdout' = Append(stdout, Line("Cannot connect to device: ConnectError"))
    /\ pc' = "flow_args"
    /\ UNCHANGED <<args, srx, dev, locals, flow_args, rpc_calls, flow_request, i, j,
                   session_dict, session_list, session, raised, exit_status>>

\* Lines 50-52: dev.open() raises ConnectError; the handler prints and exits 1.
OpenFails ==
    /\ pc = "open"
    /\ stdout' = Append(stdout, Line("Cannot connect to device: ConnectError"))
    /\ Abort("ConnectError")
    /\ UNCHANGED <<args, srx, dev, locals, flow_args, rpc_calls, flow_request, i, j,
                   session_dict, session_list, session>>

\* Variant of FlowArgs: every criterion is passed, None included.
FlowArgsUnchecked(source_ip, destination_ip, destination_port, protocol) ==
    ("source_prefix" :> source_ip) @@ ("destination_prefix" :> destination_ip) @@
    ("destination_port" :> destination_port) @@ ("protocol" :> protocol)

\* Lines 55-66: one keyword argument per criterion that is not None.
FlowArgs(source_ip, destination_ip, destination_port, protocol) ==
    LET a1 == IF source_ip # None THEN "source_prefix" :> source_ip ELSE EmptyDict
        a2 == IF destination_ip # None
              THEN Update(a1, "destination_prefix" :> destination_ip) ELSE a1
        a3 == IF destination_port # None
              THEN Update(a2, "destination_port" :> destination_port) ELSE a2
        a4 == IF protocol # None THEN Update(a3, "protocol" :> protocol) ELSE a3
    IN a4

BuildFlowArgs ==
    /\ pc = "flow_args"
    /\ flow_args' = FlowArgs(locals.source_ip, locals.destination_ip,
                             locals.destination_port, locals.protocol)
    /\ pc' = "rpc"
    /\ UNCHANGED <<args, srx, dev, locals, rpc_calls, flow_request, i, j, session_dict,
                   session_list, session, stdout, raised, exit_status>>

\* Line 68: the device answers the RPC with its session tree.
RpcReplies ==
    /\ pc = "rpc"
    /\ rpc_calls' = Append(rpc_calls, flow_args)
    /\ flow_request' = srx
    /\ pc' = "close"
    /\ UNCHANGED <<args, srx, dev, locals, flow_args, i, j, session_dict, session_list,
                   session, stdout, raised, exit_status>>

\* Line 68: the RPC raises (RpcError, timeout, dropped connection); nothing
\* catches it, so line 69 is not reached.
RpcRaises ==
    /\ pc = "rpc"
    /\ rpc_calls' = Append(rpc_calls, flow_args)
    /\ Abort("RpcError")
    /\ UNCHANGED <<args, srx, dev, locals, flow_args, flow_request, i, j, session_dict,
                   session_list, session, stdout>>

\* Variant of Close: the connection is left open.
CloseSkipped ==
    /\ pc = "close"
    /\ pc' = "fromstring"
    /\ UNCHANGED <<args, srx, dev, locals, flow_args, rpc_calls, flow_request, i, j,
                   session_dict, session_list, session, stdout, raised, exit_status>>

\* Line 69: dev.close()
Close ==
    /\ pc = "close"
    /\ dev' = [dev EXCEPT !.state = "closed"]
    /\ pc' = "fromstring"
    /\ UNCHANGED <<args, srx, locals, flow_args, rpc_calls, flow_request, i, j,
                   session_dict, session_list, session, stdout, raised, exit_status>>

\* Lines 71-72: the reply is re-parsed and session_list starts empty.
ParseReply ==
    /\ pc = "fromstring"
    /\ session_list' = <<>>
    /\ pc' = "for_session"
    /\ UNCHANGED <<args, srx, dev, locals, flow_args, rpc_calls, flow_request, i, j,
                   session_dict, session, stdout, raised, exit_status>>

\* The session node the outer loop is at.
Current == flow_request[i + 1]

\* Lines 83-84: the dictionary of the seven base fields.
BaseDict(node) ==
    [k \in {"session-id", "session-state", "policy", "timeout", "start-time",
            "duration", "configured-timeout"} |->
        IF k = "session-id" THEN node["session-identifier"] ELSE node[k]]

\* Variant of ReadBase: a node with a base field missing is skipped.
ReadBaseSkipMalformed ==
    /\ pc = "for_session"
    /\ i < Len(flow_request)
    /\ IF \E e \in BaseElements : Find(Current.base, e) = None
       THEN /\ i' = i + 1
            /\ UNCHANGED <<pc, j, session_dict>>
       ELSE /\ session_dict' = BaseDict(Current.base)
            /\ j' = 0
            /\ pc' = "for_flow"
            /\ UNCHANGED i
    /\ UNCHANGED <<args, srx, dev, locals, flow_args, rpc_calls, flow_request,
                   session_list, session, stdout, raised, exit_status>>

\* Variant of ReadBase: the state is tested first and a node that is not
\* Active is passed over before its other fields and its flows are read.
ReadBaseStateFirst ==
    /\ pc = "for_session"
    /\ i < Len(flow_request)
    /\ IF Find(Current.base, "session-state") = None
       THEN /\ Abort("AttributeError")
            /\ UNCHANGED <<i, j, session_dict>>
       ELSE IF Current.base["session-state"] # "Active"
       THEN /\ i' = i + 1
            /\ UNCHANGED <<pc, j, session_dict, raised, exit_status>>
       ELSE IF \E e \in BaseElements : Find(Current.base, e) = None
       THEN /\ Abort("AttributeError")
            /\ UNCHANGED <<i, j, session_dict>>
       ELSE /\ session_dict' = BaseDict(Current.base)
            /\ j' = 0
            /\ pc' = "for_flow"
            /\ UNCHANGED <<i, raised, exit_status>>
    /\ UNCHANGED <<args, srx, dev, locals, flow_args, rpc_calls, flow_request,
                   session_list, session, stdout>>

\* Lines 74-86: next session node; the seven find() calls, then .text of each.
ReadBase ==
    /\ pc = "for_session"
    /\ i < Len(flow_request)
    /\ IF \E e \in BaseElements : Find(Current.base, e) = None
       THEN /\ Abort("AttributeError")
            /\ UNCHANGED <<j, session_dict>>
       ELSE /\ session_dict' = BaseDict(Current.base)
            /\ j' = 0
            /\ pc' = "for_flow"
            /\ UNCHANGED <<raised, exit_status>>
    /\ UNCHANGED <<args, srx, dev, locals, flow_args, rpc_calls, flow_request, i,
                   session_list, session, stdout>>

\* Lines 97-99: the six keys a flow sub-node contributes, each with the tag
\* whose text it takes.
FlowKeys ==
    (":source-address" :> "source-address") @@
    (":destination-address" :> "destination-address") @@
    (":source_port" :> "source-port") @@
    (":destination-port" :> "destination-port") @@
    (":protocol" :> "protocol") @@
    (":byte-count" :> "byte-cnt")

FlowDict(flow) ==
    [k \in {flow["direction"] \o s : s \in DOMAIN FlowKeys} |->
        LET s == CHOOSE t \in DOMAIN FlowKeys : k = flow["direction"] \o t
        IN flow[FlowKeys[s]]]

\* Lines 88-99: next flow sub-node; the find() calls rebind the parameters
\* destination_port and protocol, then the update reads .text of all seven.
MergeFlow ==
    /\ pc = "for_flow"
    /\ j < Len(Current.flows)
    /\ LET flow == Current.flows[j + 1] IN
        /\ locals' = [locals EXCEPT !.destination_port = Element(flow, "destination-port"),
                                    !.protocol = Element(flow, "protocol")]
        /\ IF \E e \in FlowElements : Find(flow, e) = None
           THEN /\ Abort("AttributeError")
                /\ UNCHANGED <<j, session_dict>>
           ELSE /\ session_dict' = Update(session_dict, FlowDict(flow))
                /\ j' = j + 1
                /\ UNCHANGED <<pc, raised, exit_status>>
    /\ UNCHANGED <<args, srx, dev, flow_args, rpc_calls, flow_request, i, session_list,
                   session, stdout>>

\* Variant of CheckState: the record is kept whatever the state.
CheckStateKeepAll ==
    /\ pc = "for_flow"
    /\ j = Len(Current.flows)
    /\ session_list' = Append(session_list, session_dict)
    /\ i' = i + 1
    /\ pc' = "for_session"
    /\ UNCHANGED <<args, srx, dev, locals, flow_args, rpc_calls, flow_request, j,
                   session_dict, session, stdout, raised, exit_status>>

\* Lines 102-103: after the last flow sub-node, keep a copy when Active.
CheckState ==
    /\ pc = "for_flow"
    /\ j = Len(Current.flows)
    /\ session_list' = IF Current.base["session-state"] = "Active"
                       THEN Append(session_list, session_dict)
                       ELSE session_list
    /\ i' = i + 1
    /\ pc' = "for_session"
    /\ UNCHANGED <<args, srx, dev, locals, flow_args, rpc_calls, flow_request, j,
                   session_dict, session, stdout, raised, exit_status>>

\* Lines 105 and 132: the loop is exhausted, main receives the list.
Return ==
    /\ pc = "for_session"
    /\ i = Len(flow_request)
    /\ session' = session_list
    /\ pc' = "evaluate"
    /\ UNCHANGED <<args, srx, dev, locals, flow_args, rpc_calls, flow_request, i, j,
                   session_dict, session_list, stdout, raised, exit_status>>

(***************************************************************************)
(* main                                                                    *)
(***************************************************************************)
\* Lines 136-137: the operands of the concatenation, left to right.
OkOperands(rec) ==
    <<"SESSION OK - Session ID ", Get(rec, "session-id"),
      " | bytes_in=", Get(rec, "In:byte-count"),
      ";bytes_out=", Get(rec, "Out:byte-count"),
      ";configured_timeout=", Get(rec, "configured-timeout"),
      ";timeout=", Get(rec, "timeout"), ";;">>

RECURSIVE Concat(_)
Concat(strs) == IF strs = <<>> THEN "" ELSE Head(strs) \o Concat(Tail(strs))

\* Lines 134-142: str + None raises TypeError before anything is printed;
\* falling off the end of main exits with status 0.
Evaluate ==
    /\ pc = "evaluate"
    /\ IF args.nagios
       THEN IF Len(session) > 0
            THEN IF \E n \in DOMAIN OkOperands(session[1]) : OkOperands(session[1])[n] = None
                 THEN /\ Abort("TypeError")
                      /\ UNCHANGED stdout
                 ELSE /\ stdout' = Append(stdout, Line(Concat(OkOperands(session[1]))))
                      /\ pc' = "done"
                      /\ UNCHANGED <<raised, exit_status>>
            ELSE /\ stdout' = Append(stdout, Line("SESSION CRITICAL"))
                 /\ pc' = "done"
                 /\ UNCHANGED <<raised, exit_status>>
       ELSE /\ stdout' = Append(stdout, Listing(session))
            /\ pc' = "done"
            /\ UNCHANGED <<raised, exit_status>>
    /\ UNCHANGED <<args, srx, dev, locals, flow_args, rpc_calls, flow_request, i, j,
                   session_dict, session_list, session>>

Next ==
    \/ NewDevice
    \/ OpenOk
    \/ OpenFails
    \/ BuildFlowArgs
    \/ RpcReplies
    \/ RpcRaises
    \/ Close
    \/ ParseReply
    \/ ReadBase
    \/ MergeFlow
    \/ CheckState
    \/ Return
    \/ Evaluate

Spec == Init /\ [][Next]_vars
SpecArgs == InitArgs /\ [][Next]_vars
SpecMalformed == InitMalformed /\ [][Next]_vars
SpecWings == InitWings /\ [][Next]_vars

(***************************************************************************)
(* Vocabulary of the properties.                                           *)
(***************************************************************************)
\* The RPC was answered (it was sent and did not raise).
QueryReturned == Len(rpc_calls) = 1 /\ raised # "RpcError"

\* get_session returned its list to main.
Returned == pc = "evaluate" \/ (pc = "done" /\ raised \in {None, "TypeError"})

Ids(list) == [n \in DOMAIN list |-> list[n]["session-id"]]

IsActiveNode(node) == Find(node.base, "session-state") = "Active"

\* Identifiers of the Active nodes among the first n nodes, in document order.
ActiveIds(nodes, n) ==
    LET act == SelectSeq(SubSeq(nodes, 1, n), IsActiveNode)
    IN [m \in DOMAIN act |-> Find(act[m].base, "session-identifier")]

MissingBase(node) == \E e \in BaseElements : e \notin DOMAIN node.base
MissingFlow(node) ==
    \E n \in DOMAIN node.flows : \E e \in FlowElements : e \notin DOMAIN node.flows[n]

Directions(node) == [n \in DOMAIN node.flows |-> node.flows[n]["direction"]]

BaseKeys ==
    {"session-id", "session-state", "policy", "timeout", "start-time", "duration",
     "configured-timeout"}

CannotConnect == "Cannot connect to device: ConnectError"

(***************************************************************************)
(* C1: in monitoring mode, an empty SessionList gives exactly the line     *)
(* SESSION CRITICAL and a non-zero exit status.                            *)
(***************************************************************************)
C1_CriticalExitsNonZero ==
    (pc = "done" /\ args.nagios /\ Returned /\ session = <<>>)
        => /\ Len(stdout) = 1
           /\ stdout[1].val = "SESSION CRITICAL"
           /\ exit_status # 0

(***************************************************************************)
(* C2: in monitoring mode, every non-empty SessionList gives exactly the   *)
(* one OK line built from the five values of the first record, and exit    *)
(* status 0.                                                               *)
(***************************************************************************)
C2_OkLineFromFirstRecord ==
    (pc = "done" /\ args.nagios /\ Returned /\ Len(session) > 0)
        => /\ exit_status = 0
           /\ Len(stdout) = 1
           /\ stdout[1].val =
                "SESSION OK - Session ID " \o Get(session[1], "session-id")
                \o " | bytes_in=" \o Get(session[1], "In:byte-count")
                \o ";bytes_out=" \o Get(session[1], "Out:byte-count")
                \o ";configured_timeout=" \o Get(session[1], "configured-timeout")
                \o ";timeout=" \o Get(session[1], "timeout") \o ";;"

(***************************************************************************)
(* C3: the list is exactly the subsequence of the reply's session nodes    *)
(* whose state is Active, in document order: after each node of the loop,  *)
(* and in the list main receives.                                          *)
(***************************************************************************)
C3_ActiveSubsequence ==
    /\ QueryReturned => Ids(session_list) = ActiveIds(flow_request, i)
    /\ Returned => /\ i = Len(flow_request)
                   /\ Ids(session) = ActiveIds(flow_request, Len(flow_request))

C3_Witness ==
    /\ Returned
    /\ Len(flow_request) = 2
    /\ ~IsActiveNode(flow_request[1])
    /\ IsActiveNode(flow_request[2])
    /\ Ids(session) = <<"31432">>

(***************************************************************************)
(* C4: the record of an Active node with exactly the two wings In and Out  *)
(* has exactly the 19 keys session-id, session-state, policy, timeout,     *)
(* start-time, duration, configured-timeout and D:source-address,          *)
(* D:destination-address, D:source-port, D:destination-port, D:protocol,   *)
(* D:byte-count for D in {In, Out}, every value a non-empty string.        *)
(***************************************************************************)
C4_NineteenKeys ==
    (Returned /\ Len(flow_request) = 1 /\ IsActiveNode(flow_request[1])
       /\ Directions(flow_request[1]) \in {<<"In", "Out">>, <<"Out", "In">>})
        => /\ Len(session) = 1
           /\ DOMAIN session[1] =
                BaseKeys \cup
                {d \o f : d \in {"In", "Out"},
                          f \in {":source-address", ":destination-address", ":source-port",
                                 ":destination-port", ":protocol", ":byte-count"}}
           /\ \A k \in DOMAIN session[1] : session[1][k] \notin {"", None}

(***************************************************************************)
(* C5: a session node with a base field missing fails the whole            *)
(* extraction: nothing is returned, nothing reaches stdout, and the run    *)
(* ends with a non-zero exit status, whatever preceded the node.           *)
(***************************************************************************)
C5_MalformedFailsFast ==
    (QueryReturned /\ \E k \in DOMAIN flow_request : MissingBase(flow_request[k]))
        => /\ ~Returned
           /\ session = <<>>
           /\ Len(stdout) = 0
           /\ pc = "done" => (exit_status = 1 /\ raised = "AttributeError")

C5_Witness ==
    /\ pc = "done"
    /\ raised = "AttributeError"
    /\ i = 1
    /\ Len(session_list) = 1
    /\ MissingBase(flow_request[2])
    /\ exit_status = 1

(***************************************************************************)
(* C6: when opening the connection fails the run aborts with a non-zero    *)
(* exit status; no query is issued, no record is built, and stdout holds   *)
(* no OK line, CRITICAL line or listing.                                   *)
(***************************************************************************)
C6_ConnectFailureAborts ==
    (Len(stdout) > 0 /\ stdout[1].fmt = "print" /\ stdout[1].val = CannotConnect)
        => /\ pc = "done"
           /\ exit_status = 1
           /\ rpc_calls = <<>>
           /\ session_dict = EmptyDict
           /\ session_list = <<>>
           /\ session = <<>>
           /\ Len(stdout) = 1

C6_Witness ==
    /\ pc = "done"
    /\ dev.state = "new"
    /\ Len(stdout) = 1
    /\ stdout[1].val = CannotConnect
    /\ Len(srx) > 0

(***************************************************************************)
(* C7: after any number of wings of a node are merged, each of the six     *)
(* keys of a direction holds the value of the last wing merged with that   *)
(* direction, the base fields hold the node's values, and there is no      *)
(* other key.                                                              *)
(***************************************************************************)
LastWing(node, d, n) ==
    CHOOSE m \in 1..n : /\ node.flows[m]["direction"] = d
                        /\ \A q \in (m + 1)..n : node.flows[q]["direction"] # d

C7_LastWriteWins ==
    pc = "for_flow" =>
        LET node == flow_request[i + 1]
            dirs == {node.flows[n]["direction"] : n \in 1..j}
        IN /\ DOMAIN session_dict = BaseKeys \cup {d \o f : d \in dirs, f \in DOMAIN FlowKeys}
           /\ \A d \in dirs : \A f \in DOMAIN FlowKeys :
                session_dict[d \o f] = node.flows[LastWing(node, d, j)][FlowKeys[f]]
           /\ session_dict["session-id"] = node.base["session-identifier"]
           /\ \A k \in BaseKeys \ {"session-id"} : session_dict[k] = node.base[k]

C7_Witness ==
    /\ pc = "for_flow"
    /\ j = 3
    /\ Directions(flow_request[i + 1]) = <<"In", "Out", "In">>
    /\ session_dict["In:byte-count"] = "1715" \o "3"
    /\ session_dict["Out:byte-count"] = "1715" \o "2"

(***************************************************************************)
(* C8: the arguments the device receives hold an entry for a criterion     *)
(* exactly when it was supplied, with the supplied value; they stay so     *)
(* while the loop rebinds destination_port and protocol, and no session    *)
(* is filtered locally.                                                    *)
(***************************************************************************)
Criteria ==
    ("source_prefix" :> "src_address") @@ ("destination_prefix" :> "dst_address") @@
    ("destination_port" :> "dst_port") @@ ("protocol" :> "protocol")

C8_ArgumentsPassedThrough ==
    /\ Len(rpc_calls) > 0 =>
        /\ DOMAIN rpc_calls[1] = {k \in DOMAIN Criteria : args[Criteria[k]] # None}
        /\ \A k \in DOMAIN rpc_calls[1] : rpc_calls[1][k] = args[Criteria[k]]
    /\ Returned => Ids(session) = ActiveIds(flow_request, Len(flow_request))

C8_Witness ==
    /\ pc = "for_flow"
    /\ j = 2
    /\ args.dst_port = "80"
    /\ args.protocol = None
    /\ args.src_address = None
    /\ locals.destination_port = "<Element destination-port>"
    /\ locals.protocol = "<Element protocol>"
    /\ rpc_calls = <<("destination_port" :> "80") @@ ("destination_prefix" :> "10.2.2.2")>>

(***************************************************************************)
(* C9: the state check of a node comes after its seven base fields are     *)
(* read and all its flow sub-nodes merged, so every node the loop has      *)
(* passed, Active or not, had every base and flow field.                   *)
(***************************************************************************)
C9_CheckAfterAssembly ==
    /\ [](\A k \in 1..i : ~MissingBase(flow_request[k]) /\ ~MissingFlow(flow_request[k]))
    /\ [][i' # i => /\ pc = "for_flow"
                    /\ j = Len(flow_request[i + 1].flows)
                    /\ BaseKeys \subseteq DOMAIN session_dict]_vars

C9_Witness ==
    /\ pc = "done"
    /\ raised = "AttributeError"
    /\ i = 1
    /\ j = 1
    /\ ~IsActiveNode(flow_request[2])
    /\ ~MissingBase(flow_request[2])
    /\ MissingFlow(flow_request[2])

(***************************************************************************)
(* C10: the RPC is sent at most once and only on an opened connection;     *)
(* the connection is closed before a session node is parsed and before     *)
(* anything is printed once the query has returned.                        *)
(*   Original: every run that opened the connection has closed it when     *)
(*   the process ends.                                                     *)
(*   Amended: every run whose query returned has closed it when the        *)
(*   process ends.                                                         *)
(***************************************************************************)
C10_QueryThenClose ==
    /\ Len(rpc_calls) <= 1
    /\ Len(rpc_calls) = 1 => dev.state \in {"open", "closed"}
    /\ pc \in {"fromstring", "for_session", "for_flow", "evaluate"} => dev.state = "closed"
    /\ (i > 0 \/ session_dict # EmptyDict \/ session_list # <<>>) => dev.state = "closed"
    /\ (QueryReturned /\ Len(stdout) > 0) => dev.state = "closed"

====
